---- MODULE Spec2Model ----
(***************************************************************************)
(* Model of WME-Shortcut-Demo.user.js: the numeric-to-string chord         *)
(* converter and the four shortcut lifecycles (startup, save, reset,       *)
(* auto-save tick) over the host registry and localStorage.                *)
(*                                                                         *)
(* JavaScript strings are sequences of one-character strings; a JavaScript *)
(* value is a record [tag, chars] so that null, undefined, numbers and     *)
(* strings can be compared with one another.                               *)
(***************************************************************************)
EXTENDS Integers, Sequences, FiniteSets, TLC

VARIABLES
  numericFormat,   \* converter run: the argument
  converted,       \* converter run: the value returned
  convPc,          \* converter run: "idle", "call" or "done"
  convShape,       \* converter run: how the argument was built (oracle)
  pc,              \* 0 awaiting SDK_INITIALIZED, 1..4 next initializeShortcut<i>, 5 ready,
                   \* 6 initializeShortcuts left by an uncaught exception
  localStorage,    \* storage key of instance i -> stored value
  registry,        \* host registry: instance i -> live registration
  lastSavedKeys,   \* closure variable of initializeShortcut2/4
  timerStarted,    \* setInterval issued in this page load
  shortcutKeysToUse, \* chord argument of this page load's createShortcut call
  deleteCalled,    \* deleteShortcut was called by this page load's startup
  startupCalls,    \* external calls this page load's startup made, in order
  readFailed,      \* history: instances whose getItem threw in this page load
  resetInSync,     \* history: reset() ran with live chord = lastSavedKeys, no
                   \* change, save() or reload since
  origin,          \* history: which operation last wrote or removed the key
  liveAtWrite,     \* history: live chord when the key was last written
  afterReset,      \* history: reset() removed the key, no save()/change since
  changed,         \* history: live chord changed since the last tick
  unsaved,         \* history: live chord of a manual-save instance changed, no save() since
  lastOp,          \* history: the operation that produced this state
  nEvents          \* bound: environment events so far (see MaxEvents)

convVars == <<numericFormat, converted, convPc, convShape>>
lifeVars == <<pc, localStorage, registry, lastSavedKeys, timerStarted,
              shortcutKeysToUse, deleteCalled, startupCalls, readFailed, resetInSync,
              origin, liveAtWrite, afterReset, changed, unsaved, lastOp, nEvents>>
vars == <<convVars, lifeVars>>

----------------------------------------------------------------------------
(* Bounds of the model *)
MaxMask == 9
MaxKeyCode == 130
\* environment events of one run: a value left by an earlier session, a chord
\* change by the user, a save() or reset() call, a press of a chord, a reload, a
\* throwing external call
MaxEvents == 3

----------------------------------------------------------------------------
(* JavaScript values and strings *)

Null == [tag |-> "null", chars |-> <<>>]
Undefined == [tag |-> "undefined", chars |-> <<>>]
SomeNumber == [tag |-> "number", chars |-> <<>>]    \* a non-zero number such as 456
Str(s) == [tag |-> "string", chars |-> s]
Raised == [tag |-> "TypeError", chars |-> <<>>]     \* the call threw

\* ToBoolean: null, undefined and "" are falsy
Truthy(v) == v.tag = "number" \/ (v.tag = "string" /\ v.chars # <<>>)
\* a || null
OrNull(v) == IF Truthy(v) THEN v ELSE Null

Digits == <<"0", "1", "2", "3", "4", "5", "6", "7", "8", "9">>
Upper == <<"A", "B", "C", "D", "E", "F", "G", "H", "I", "J", "K", "L", "M",
           "N", "O", "P", "Q", "R", "S", "T", "U", "V", "W", "X", "Y", "Z">>
Lower == <<"a", "b", "c", "d", "e", "f", "g", "h", "i", "j", "k", "l", "m",
           "n", "o", "p", "q", "r", "s", "t", "u", "v", "w", "x", "y", "z">>

IndexIn(seq, c) == CHOOSE j \in 1..Len(seq) : seq[j] = c
IsIn(seq, c) == \E j \in 1..Len(seq) : seq[j] = c
IsDigit(c) == IsIn(Digits, c)
DigitVal(c) == IndexIn(Digits, c) - 1

\* String.prototype.split(sep) for a one-character separator
RECURSIVE SplitFrom(_, _, _)
SplitFrom(s, sep, cur) ==
  IF s = <<>> THEN <<cur>>
  ELSE IF Head(s) = sep THEN <<cur>> \o SplitFrom(Tail(s), sep, <<>>)
  ELSE SplitFrom(Tail(s), sep, Append(cur, Head(s)))
split(s, sep) == SplitFrom(s, sep, <<>>)

\* parseInt(s, 10): skip leading white space, an optional sign, then the longest
\* prefix of decimal digits; NaN when there is no digit
RECURSIVE SkipSpace(_)
SkipSpace(s) == IF s # <<>> /\ Head(s) = " " THEN SkipSpace(Tail(s)) ELSE s
RECURSIVE DigitPrefix(_, _)
DigitPrefix(s, acc) ==
  IF s # <<>> /\ IsDigit(Head(s))
  THEN DigitPrefix(Tail(s), acc * 10 + DigitVal(Head(s)))
  ELSE acc
parseInt(s) ==
  LET t == SkipSpace(s)
      signed == t # <<>> /\ Head(t) \in {"-", "+"}
      u == IF signed THEN Tail(t) ELSE t
      magnitude == DigitPrefix(u, 0)
  IN IF u = <<>> \/ ~IsDigit(Head(u)) THEN [nan |-> TRUE, val |-> 0]
     ELSE [nan |-> FALSE,
           val |-> IF signed /\ Head(t) = "-" THEN 0 - magnitude ELSE magnitude]

\* String(n) for an integer n
RECURSIVE NatToString(_)
NatToString(n) ==
  IF n < 10 THEN <<Digits[n + 1]>>
  ELSE NatToString(n \div 10) \o <<Digits[(n % 10) + 1]>>
String(n) == IF n < 0 THEN <<"-">> \o NatToString(0 - n) ELSE NatToString(n)

\* a & b for b a single bit 1, 2 or 4 (two's complement: floor division)
BitAnd(a, b) == IF (a \div b) % 2 = 1 THEN b ELSE 0

\* String.fromCharCode for the two ranges the converter uses it on
fromCharCode(code) ==
  IF code >= 48 /\ code <= 57 THEN Digits[code - 47] ELSE Upper[code - 64]
toLowerCase(c) == IF IsIn(Upper, c) THEN Lower[IndexIn(Upper, c)] ELSE c

----------------------------------------------------------------------------
(* convertNumericShortcutToString *)

\* the guide's variant: A for 4, C for 1, S for 2, appended in the order A, C, S
ModifierString_GuideOrder(modifierBitmask) ==
  (IF BitAnd(modifierBitmask, 4) # 0 THEN <<"A">> ELSE <<>>)
  \o (IF BitAnd(modifierBitmask, 1) # 0 THEN <<"C">> ELSE <<>>)
  \o (IF BitAnd(modifierBitmask, 2) # 0 THEN <<"S">> ELSE <<>>)

ModifierString(modifierBitmask) ==
  (IF BitAnd(modifierBitmask, 1) # 0 THEN <<"S">> ELSE <<>>)
  \o (IF BitAnd(modifierBitmask, 2) # 0 THEN <<"C">> ELSE <<>>)
  \o (IF BitAnd(modifierBitmask, 4) # 0 THEN <<"A">> ELSE <<>>)

\* a variant that forgets .toLowerCase()
KeyRepresentation_NoLowerCase(keyCode) ==
  IF keyCode >= 48 /\ keyCode <= 57 THEN <<fromCharCode(keyCode)>>
  ELSE IF keyCode >= 65 /\ keyCode <= 90 THEN <<fromCharCode(keyCode)>>
  ELSE String(keyCode)

KeyRepresentation(keyCode) ==
  IF keyCode >= 48 /\ keyCode <= 57 THEN <<fromCharCode(keyCode)>>
  ELSE IF keyCode >= 65 /\ keyCode <= 90 THEN <<toLowerCase(fromCharCode(keyCode))>>
  ELSE String(keyCode)

\* a variant without the typeof test
InputRejected_NoTypeCheck(v) == ~Truthy(v)

InputRejected(v) == ~Truthy(v) \/ v.tag # "string"

convertNumericShortcutToString(v) ==
  IF InputRejected(v) THEN Null
  ELSE IF v.tag # "string" THEN Raised      \* .split on a non-string
  ELSE
    LET parts == split(v.chars, ",") IN
    IF Len(parts) # 2 THEN Null
    ELSE
      LET modifierBitmask == parseInt(parts[1])
          keyCode == parseInt(parts[2])
      IN
      IF modifierBitmask.nan \/ keyCode.nan THEN Null
      ELSE
        LET modifiers == ModifierString(modifierBitmask.val)
            keyRepresentation == KeyRepresentation(keyCode.val)
        IN IF modifiers # <<>>
           THEN Str(modifiers \o <<"+">> \o keyRepresentation)
           ELSE Str(keyRepresentation)

----------------------------------------------------------------------------
(* The four shortcut instances *)

Inst == 1..4
\* a variant where instance 3 starts a timer too
AutoSave_WithInstance3 == {2, 3, 4}

AutoSave == {2, 4}         \* instances whose startup issues setInterval
ManualSave == Inst \ AutoSave         \* instances persisted by save() only

ShortcutIds == <<"WMEShortcutDemo_Action1", "WMEShortcutDemo_Action2",
                 "WMEShortcutDemo_Action3", "WMEShortcutDemo_Action4">>
\* a variant where instance 4 was given the storage key of instance 3
StorageKeys_Instance4UsesKey3 ==
  <<"WMEShortcutDemo_Action1_Config", "WMEShortcutDemo_Action2_Config",
    "WMEShortcutDemo_Action3_Config", "WMEShortcutDemo_Action3_Config">>

StorageKeys == <<"WMEShortcutDemo_Action1_Config", "WMEShortcutDemo_Action2_Config",
                 "WMEShortcutDemo_Action3_Config", "WMEShortcutDemo_Action4_Config">>
Names == <<"Demo Action 1", "Demo Action 2", "Demo Action 3", "Demo Action 4">>
Descriptions == <<"USER CUSTOMIZABLE", "HARDCODED DEFAULT (A+2) + AUTO-SAVE",
                  "HARDCODED DEFAULT (A+9)", "AUTO-SAVE">>

\* a variant with the two defaults exchanged
HARDCODED_DEFAULT_Swapped(i) ==
  IF i = 2 THEN Str(<<"A", "+", "9">>)
  ELSE IF i = 3 THEN Str(<<"A", "+", "2">>)
  ELSE Null

\* the chord registered when nothing usable is stored: const HARDCODED_DEFAULT of
\* instances 2 and 3, the initial null of shortcutKeysToUse of instances 1 and 4
HARDCODED_DEFAULT(i) ==
  IF i = 2 THEN Str(<<"A", "+", "2">>)
  ELSE IF i = 3 THEN Str(<<"A", "+", "9">>)
  ELSE Null

----------------------------------------------------------------------------
(* The host: wmeSDK.Shortcuts and localStorage *)

\* The host keeps and reports a chord in the numeric format "mask,keyCode" of the
\* script's header comment: 1 = Shift, 2 = Ctrl, 4 = Alt
ModifierBit(c) == IF c = "S" THEN 1 ELSE IF c = "C" THEN 2 ELSE IF c = "A" THEN 4 ELSE 0
RECURSIVE MaskOf(_)
MaskOf(letters) ==
  IF letters = <<>> THEN 0 ELSE ModifierBit(Head(letters)) + MaskOf(Tail(letters))
KeyCodeOf(key) ==
  IF Len(key) = 1 /\ IsDigit(key[1]) THEN 48 + DigitVal(key[1])
  ELSE IF Len(key) = 1 /\ IsIn(Lower, key[1]) THEN 64 + IndexIn(Lower, key[1])
  ELSE parseInt(key).val
HostNumericFormat(chord) ==
  IF ~Truthy(chord) THEN Null
  ELSE LET parts == split(chord.chars, "+") IN
       IF Len(parts) = 1
       THEN Str(<<"0", ",">> \o String(KeyCodeOf(parts[1])))
       ELSE Str(String(MaskOf(parts[1])) \o <<",">> \o String(KeyCodeOf(parts[2])))

NoShortcut ==
  [present |-> FALSE, shortcutId |-> "", name |-> "", description |-> "",
   shortcutKeys |-> Null]
\* what getAllShortcuts reports after createShortcut({shortcutId, name, ...})
Registration(i, keys) ==
  [present |-> TRUE, shortcutId |-> ShortcutIds[i], name |-> Names[i],
   description |-> Descriptions[i], shortcutKeys |-> HostNumericFormat(keys)]

\* wmeSDK.Shortcuts.getAllShortcuts().find(s => s.shortcutId === shortcutId)
FindShortcut(i) == registry[ShortcutIds[i]]

\* wmeSDK.Shortcuts.deleteShortcut({ shortcutId }) inside try/catch: it throws for an
\* unknown id, which the catch swallows
deleteShortcut(reg, i) ==
  IF reg[ShortcutIds[i]].present THEN [reg EXCEPT ![ShortcutIds[i]] = NoShortcut] ELSE reg

\* values under a storage key: nothing, text JSON.parse rejects, or a serialized
\* configToSave
NoItem ==
  [kind |-> "absent", shortcutId |-> "", name |-> "", description |-> "",
   shortcutKeys |-> Null]
Garbage ==
  [kind |-> "garbage", shortcutId |-> "", name |-> "", description |-> "",
   shortcutKeys |-> Null]
\* JSON.stringify(configToSave)
JSONstringify(config) ==
  [kind |-> "record", shortcutId |-> config.shortcutId, name |-> config.name,
   description |-> config.description, shortcutKeys |-> config.shortcutKeys]
\* a variant that leaves shortcutKeys out of configToSave
ConfigToSave_DropsKeys(shortcut) ==
  [shortcutId |-> shortcut.shortcutId, name |-> shortcut.name,
   description |-> shortcut.description, shortcutKeys |-> Null]

\* configToSave = {shortcutId: shortcut.shortcutId, ..., shortcutKeys: shortcut.shortcutKeys}
ConfigToSave(shortcut) ==
  [shortcutId |-> shortcut.shortcutId, name |-> shortcut.name,
   description |-> shortcut.description, shortcutKeys |-> shortcut.shortcutKeys]

\* a variant whose savedConfig survives a throwing read
LoadSavedConfig_ReadNeverFails(item, getItemThrows) ==
  IF item.kind # "record" THEN [found |-> FALSE, shortcutKeys |-> Undefined]
  ELSE [found |-> TRUE, shortcutKeys |-> item.shortcutKeys]

\* Step 1 of startup: getItem, then JSON.parse inside try/catch; savedConfig stays
\* null when the key is absent, getItem throws or JSON.parse throws
LoadSavedConfig(item, getItemThrows) ==
  IF getItemThrows \/ item.kind # "record" THEN [found |-> FALSE, shortcutKeys |-> Undefined]
  ELSE [found |-> TRUE, shortcutKeys |-> item.shortcutKeys]

\* savedConfig?.shortcutKeys
SavedKeys(savedConfig) ==
  IF savedConfig.found THEN savedConfig.shortcutKeys ELSE Undefined

\* Step 2 of startup: deleteShortcut is attempted iff savedConfig?.shortcutKeys is truthy
DeleteAttempted(savedConfig) == Truthy(SavedKeys(savedConfig))

\* a variant that falls back to the hardcoded default when the conversion fails
KeysToUse_DefaultOnFailure(i, savedConfig) ==
  IF /\ Truthy(SavedKeys(savedConfig))
     /\ Truthy(convertNumericShortcutToString(SavedKeys(savedConfig)))
  THEN convertNumericShortcutToString(SavedKeys(savedConfig))
  ELSE HARDCODED_DEFAULT(i)

\* a variant that tests the saved chord against null instead of its truthiness
KeysToUse_NullCheckOnly(i, savedConfig) ==
  IF SavedKeys(savedConfig).tag \notin {"null", "undefined"}
  THEN OrNull(convertNumericShortcutToString(SavedKeys(savedConfig)))
  ELSE HARDCODED_DEFAULT(i)

\* a variant that ignores the saved chord
KeysToUse_AlwaysDefault(i, savedConfig) == HARDCODED_DEFAULT(i)

\* Step 3 of startup: the saved chord converted, else the hardcoded default
KeysToUse(i, savedConfig) ==
  IF Truthy(SavedKeys(savedConfig))
  THEN OrNull(convertNumericShortcutToString(SavedKeys(savedConfig)))
  ELSE HARDCODED_DEFAULT(i)

\* a variant whose lastSavedKeys starts as the chord string given to createShortcut
InitialLastSavedKeys_StringForm(savedConfig) ==
  OrNull(convertNumericShortcutToString(SavedKeys(savedConfig)))

\* a variant whose lastSavedKeys always starts as null
InitialLastSavedKeys_AlwaysNull(savedConfig) == Null

\* let lastSavedKeys = savedConfig?.shortcutKeys || null
InitialLastSavedKeys(savedConfig) == OrNull(SavedKeys(savedConfig))

----------------------------------------------------------------------------
(* Chords of the model *)

ChordC_q == Str(<<"2", ",", "8", "1">>)       \* "2,81"
ChordA_8 == Str(<<"4", ",", "5", "6">>)       \* "4,56"
UserChords == {ChordC_q, ChordA_8}            \* what the user assigns in the host UI
Undecodable == Str(<<"A", "+", "8">>)         \* a stored chord the converter rejects
EmptyChord == Str(<<>>)                       \* a stored record with shortcutKeys: ""

\* what an earlier session may have left under the storage key of instance i
PresetItems(i) ==
  {Garbage}
  \cup {JSONstringify([shortcutId |-> ShortcutIds[i], name |-> Names[i],
                       description |-> Descriptions[i], shortcutKeys |-> k]) :
        k \in {ChordC_q, Undecodable, EmptyChord}}

IdSet == {ShortcutIds[i] : i \in Inst}
KeySet == {StorageKeys[i] : i \in Inst}

NotCalled == [tag |-> "not called", chars |-> <<>>]

\* before: the value under the instance's storage key when the operation began;
\* escaped: an exception left the operation
Op(op, i, faults, wrote, sawChange, before, escaped) ==
  [op |-> op, inst |-> i, faults |-> faults, wrote |-> wrote, sawChange |-> sawChange,
   before |-> before, escaped |-> escaped]

IdleConv ==
  /\ numericFormat = Null
  /\ converted = Null
  /\ convPc = "idle"
  /\ convShape = [kind |-> "idle", toks |-> <<>>]

FreshPage ==
  /\ pc = 0
  /\ registry = [id \in IdSet |-> NoShortcut]
  /\ lastSavedKeys = [i \in AutoSave |-> Null]
  /\ timerStarted = [i \in Inst |-> FALSE]
  /\ shortcutKeysToUse = [i \in Inst |-> NotCalled]
  /\ deleteCalled = [i \in Inst |-> FALSE]
  /\ startupCalls = [i \in Inst |-> <<>>]
  /\ readFailed = {}
  /\ resetInSync = [i \in AutoSave |-> FALSE]
  /\ changed = [i \in Inst |-> FALSE]

Init ==
  /\ IdleConv
  /\ FreshPage
  /\ \E preset \in SUBSET Inst :
       /\ Cardinality(preset) <= MaxEvents
       /\ nEvents = Cardinality(preset)
       /\ localStorage \in
            {f \in [KeySet -> {NoItem} \cup UNION {PresetItems(i) : i \in Inst}] :
               \A i \in Inst :
                 IF i \in preset THEN f[StorageKeys[i]] \in PresetItems(i)
                 ELSE f[StorageKeys[i]] = NoItem}
       /\ origin = [i \in Inst |-> IF i \in preset THEN "preset" ELSE "none"]
  /\ liveAtWrite = [i \in Inst |-> Null]
  /\ afterReset = [i \in Inst |-> FALSE]
  /\ unsaved = [i \in ManualSave |-> FALSE]
  /\ lastOp = Op("init", 0, {}, FALSE, FALSE, NoItem, FALSE)

----------------------------------------------------------------------------
(* Startup: unsafeWindow.SDK_INITIALIZED.then(initScript), then the four      *)
(* initializeShortcut<i> in order, each one synchronous                       *)

Count(b) == IF b THEN 1 ELSE 0
FaultSet(a, na, b, nb) == (IF a THEN {na} ELSE {}) \cup (IF b THEN {nb} ELSE {})

SDK_INITIALIZED ==
  /\ pc = 0
  /\ pc' = 1
  /\ lastOp' = Op("sdk", 0, {}, FALSE, FALSE, NoItem, FALSE)
  /\ UNCHANGED <<convVars, localStorage, registry, lastSavedKeys, timerStarted,
                 shortcutKeysToUse, deleteCalled, startupCalls, readFailed, resetInSync,
                 origin, liveAtWrite, afterReset, changed, unsaved, nEvents>>

\* a variant whose deleteShortcut call is outside any try block
TryCatch_DeleteUnguarded ==
  [startup |-> {"getItem", "createShortcut"},
   save |-> {"getAllShortcuts", "setItem"},
   reset |-> {"removeItem"},
   tick |-> {"getAllShortcuts", "setItem"},
   callback |-> {}]

\* a variant whose createShortcut call is outside any try block
TryCatch_CreateUnguarded ==
  [startup |-> {"getItem", "deleteShortcut"},
   save |-> {"getAllShortcuts", "setItem"},
   reset |-> {"removeItem"},
   tick |-> {"getAllShortcuts", "setItem"},
   callback |-> {}]

\* a variant whose timer callback has no try block
TryCatch_TickUnguarded ==
  [startup |-> {"getItem", "deleteShortcut", "createShortcut"},
   save |-> {"getAllShortcuts", "setItem"},
   reset |-> {"removeItem"},
   tick |-> {},
   callback |-> {}]

\* the external calls each operation makes inside a try block whose catch only logs
TryCatch ==
  [startup |-> {"getItem", "deleteShortcut", "createShortcut"},
   save |-> {"getAllShortcuts", "setItem"},
   reset |-> {"removeItem"},
   tick |-> {"getAllShortcuts", "setItem"},
   callback |-> {}]

\* an exception leaves the operation when the throwing call is outside every try
Escapes(op, faults) == faults \ TryCatch[op] # {}

\* Step 4: createShortcut inside try/catch; a throw leaves the registry as it was
CreateShortcut(reg, i, keys, createThrows) ==
  IF createThrows THEN reg ELSE [reg EXCEPT ![ShortcutIds[i]] = Registration(i, keys)]

\* a variant that removes the value only when it is a parseable record
removeItem_OnlyRecords(store, i) ==
  IF store[StorageKeys[i]].kind = "record"
  THEN [store EXCEPT ![StorageKeys[i]] = NoItem]
  ELSE store

\* localStorage.removeItem(storageKey)
removeItem(store, i) == [store EXCEPT ![StorageKeys[i]] = NoItem]

\* a variant that starts instance 2 before instance 1
StartupOrder_TwoFirst == <<2, 1, 3, 4>>

\* initializeShortcuts calls the four startups in this order
StartupOrder == <<1, 2, 3, 4>>

\* a variant that removes a value it could not load
StartupCalls_RemovesUnreadable(savedConfig) ==
  <<"getItem">>
  \o (IF savedConfig.found THEN <<>> ELSE <<"removeItem">>)
  \o (IF DeleteAttempted(savedConfig) THEN <<"deleteShortcut">> ELSE <<>>)
  \o <<"createShortcut">>

\* a variant that calls createShortcut a second time
StartupCalls_CreateTwice(savedConfig) ==
  <<"getItem">>
  \o (IF DeleteAttempted(savedConfig) THEN <<"deleteShortcut">> ELSE <<>>)
  \o <<"createShortcut", "createShortcut">>

\* a variant that deregisters after it has registered
StartupCalls_DeleteAfterCreate(savedConfig) ==
  <<"getItem", "createShortcut">>
  \o (IF DeleteAttempted(savedConfig) THEN <<"deleteShortcut">> ELSE <<>>)

\* the external calls of initializeShortcut<i> in program order: step 1, step 2 when
\* savedConfig?.shortcutKeys is truthy, step 4
StartupCalls(savedConfig) ==
  <<"getItem">>
  \o (IF DeleteAttempted(savedConfig) THEN <<"deleteShortcut">> ELSE <<>>)
  \o <<"createShortcut">>

\* the calls made one after the other on the registry and the storage; a call that
\* throws has no effect, and outside a try block it ends the run
RECURSIVE RunCalls(_, _, _, _, _)
RunCalls(world, i, calls, keys, throwing) ==
  IF calls = <<>> THEN world
  ELSE LET c == Head(calls)
           after ==
             IF c \in throwing THEN world
             ELSE IF c = "deleteShortcut"
               THEN [world EXCEPT !.reg = deleteShortcut(world.reg, i)]
             ELSE IF c = "createShortcut"
               THEN [world EXCEPT !.reg = CreateShortcut(world.reg, i, keys, FALSE)]
             ELSE IF c = "removeItem"
               THEN [world EXCEPT !.store = removeItem(world.store, i)]
             ELSE world
           logged == [after EXCEPT !.made = Append(world.made, c)]
       IN IF c \in throwing /\ c \notin TryCatch.startup THEN logged
          ELSE RunCalls(logged, i, Tail(calls), keys, throwing)

initializeShortcut(i) ==
  /\ pc \in 1..4
  /\ StartupOrder[pc] = i
  /\ \E getItemThrows, deleteThrows, createThrows \in BOOLEAN :
       LET savedConfig == LoadSavedConfig(localStorage[StorageKeys[i]], getItemThrows)
           keys == KeysToUse(i, savedConfig)
           faults == FaultSet(getItemThrows, "getItem", createThrows, "createShortcut")
                     \cup FaultSet(deleteThrows, "deleteShortcut", FALSE, "")
           out == RunCalls([reg |-> registry, store |-> localStorage, made |-> <<>>],
                           i, StartupCalls(savedConfig), keys, faults)
       IN
       /\ deleteThrows => DeleteAttempted(savedConfig)
       /\ nEvents + Count(getItemThrows) + Count(createThrows) <= MaxEvents
       /\ nEvents' = nEvents + Count(getItemThrows) + Count(createThrows)
       /\ deleteCalled' = [deleteCalled EXCEPT ![i] = DeleteAttempted(savedConfig)]
       /\ shortcutKeysToUse' = [shortcutKeysToUse EXCEPT ![i] = keys]
       /\ registry' = out.reg
       /\ localStorage' = out.store
       /\ startupCalls' = [startupCalls EXCEPT ![i] = out.made]
       /\ readFailed' = IF getItemThrows THEN readFailed \cup {i} ELSE readFailed
       /\ lastSavedKeys' =
            IF i \in AutoSave
            THEN [lastSavedKeys EXCEPT ![i] = InitialLastSavedKeys(savedConfig)]
            ELSE lastSavedKeys
       /\ timerStarted' = [timerStarted EXCEPT ![i] = i \in AutoSave]
       /\ lastOp' = Op("startup", i, faults, FALSE, FALSE,
                       localStorage[StorageKeys[i]], Escapes("startup", faults))
       /\ pc' = IF Escapes("startup", faults) THEN 6 ELSE pc + 1
  /\ UNCHANGED <<convVars, resetInSync, origin, liveAtWrite, afterReset, changed,
                 unsaved>>

initializeShortcut1 == initializeShortcut(1)
initializeShortcut2 == initializeShortcut(2)
initializeShortcut3 == initializeShortcut(3)
initializeShortcut4 == initializeShortcut(4)

----------------------------------------------------------------------------
(* save(), reset() and the auto-save tick *)

\* a variant without the `!shortcut` test
SaveSkipped_NoPresenceCheck(i, shortcut) ==
  i = 3 /\ ~Truthy(shortcut.shortcutKeys)

\* a variant whose chord check sits in instance 1 and not in instance 3
SaveSkipped_KeyCheckInInstance1(i, shortcut) ==
  \/ ~shortcut.present
  \/ i = 1 /\ ~Truthy(shortcut.shortcutKeys)

\* a variant where instance 3 has the early return of the other instances
SaveSkipped_NoKeyCheck(i, shortcut) == ~shortcut.present

\* the early return of saveDemoShortcut<i>: `!shortcut`, and for instance 3
\* `!shortcut || !shortcut.shortcutKeys`
SaveSkipped(i, shortcut) ==
  \/ ~shortcut.present
  \/ i = 3 /\ ~Truthy(shortcut.shortcutKeys)

\* a variant that keeps a value already stored under the key
setItem_OnlyIfAbsent(store, i, shortcut) ==
  IF store[StorageKeys[i]].kind = "absent"
  THEN [store EXCEPT ![StorageKeys[i]] = JSONstringify(ConfigToSave(shortcut))]
  ELSE store

\* localStorage.setItem(storageKey, JSON.stringify(configToSave))
setItem(store, i, shortcut) ==
  [store EXCEPT ![StorageKeys[i]] = JSONstringify(ConfigToSave(shortcut))]

\* a variant that assigns the lastSavedKeys of the other auto-save instance
TrackSaved_OtherInstance(last, i, shortcut) ==
  IF i \in AutoSave THEN [last EXCEPT ![6 - i] = shortcut.shortcutKeys] ELSE last

\* a variant that forgets to update lastSavedKeys
TrackSaved_Forgets(last, i, shortcut) == last

\* lastSavedKeys = shortcut.shortcutKeys, in instances 2 and 4 only
TrackSaved(last, i, shortcut) ==
  IF i \in AutoSave THEN [last EXCEPT ![i] = shortcut.shortcutKeys] ELSE last

saveDemoShortcut(i) ==
  /\ pc = 5
  /\ \E getAllThrows, setItemThrows \in BOOLEAN :
       LET shortcut == FindShortcut(i)
           writes == ~getAllThrows /\ ~SaveSkipped(i, shortcut)
           done == writes /\ ~setItemThrows
       IN
       /\ setItemThrows => writes
       /\ nEvents + 1 + Count(getAllThrows) + Count(setItemThrows) <= MaxEvents
       /\ nEvents' = nEvents + 1 + Count(getAllThrows) + Count(setItemThrows)
       /\ localStorage' = IF done THEN setItem(localStorage, i, shortcut) ELSE localStorage
       /\ lastSavedKeys' = IF done THEN TrackSaved(lastSavedKeys, i, shortcut)
                           ELSE lastSavedKeys
       /\ origin' = IF done THEN [origin EXCEPT ![i] = "save"] ELSE origin
       /\ liveAtWrite' = IF done THEN [liveAtWrite EXCEPT ![i] = shortcut.shortcutKeys]
                         ELSE liveAtWrite
       /\ unsaved' = IF done /\ i \in ManualSave THEN [unsaved EXCEPT ![i] = FALSE]
                     ELSE unsaved
       /\ lastOp' = Op("save", i,
                       FaultSet(getAllThrows, "getAllShortcuts", setItemThrows, "setItem"),
                       done, FALSE, localStorage[StorageKeys[i]],
                       Escapes("save",
                               FaultSet(getAllThrows, "getAllShortcuts",
                                        setItemThrows, "setItem")))
  /\ afterReset' = [afterReset EXCEPT ![i] = FALSE]
  /\ resetInSync' = IF i \in AutoSave THEN [resetInSync EXCEPT ![i] = FALSE]
                    ELSE resetInSync
  /\ UNCHANGED <<convVars, pc, registry, timerStarted, shortcutKeysToUse, deleteCalled,
                 startupCalls, readFailed, changed>>

saveDemoShortcut1 == saveDemoShortcut(1)
saveDemoShortcut2 == saveDemoShortcut(2)
saveDemoShortcut3 == saveDemoShortcut(3)
saveDemoShortcut4 == saveDemoShortcut(4)

\* a variant of reset() that also sets lastSavedKeys back to null
resetDemoShortcut_ForgetsLastSaved(i) ==
  /\ pc = 5
  /\ \E removeItemThrows \in BOOLEAN :
       /\ nEvents + 1 + Count(removeItemThrows) <= MaxEvents
       /\ nEvents' = nEvents + 1 + Count(removeItemThrows)
       /\ localStorage' = IF removeItemThrows THEN localStorage
                          ELSE removeItem(localStorage, i)
       /\ origin' = IF removeItemThrows THEN origin ELSE [origin EXCEPT ![i] = "reset"]
       /\ liveAtWrite' = IF removeItemThrows THEN liveAtWrite
                         ELSE [liveAtWrite EXCEPT ![i] = Null]
       /\ afterReset' = [afterReset EXCEPT ![i] = ~removeItemThrows]
       /\ resetInSync' =
            IF i \in AutoSave /\ ~removeItemThrows
            THEN [resetInSync EXCEPT ![i] =
                    (FindShortcut(i).shortcutKeys = lastSavedKeys[i])]
            ELSE resetInSync
       /\ lastOp' = Op("reset", i, FaultSet(removeItemThrows, "removeItem", FALSE, ""),
                       FALSE, FALSE, localStorage[StorageKeys[i]], FALSE)
  /\ lastSavedKeys' = IF i \in AutoSave THEN [lastSavedKeys EXCEPT ![i] = Null]
                      ELSE lastSavedKeys
  /\ UNCHANGED <<convVars, pc, registry, timerStarted, shortcutKeysToUse,
                 deleteCalled, startupCalls, readFailed, changed, unsaved>>

\* a variant of reset() that also re-registers the shortcut with its default
resetDemoShortcut_Reregisters(i) ==
  /\ pc = 5
  /\ \E removeItemThrows \in BOOLEAN :
       /\ nEvents + 1 + Count(removeItemThrows) <= MaxEvents
       /\ nEvents' = nEvents + 1 + Count(removeItemThrows)
       /\ localStorage' = IF removeItemThrows THEN localStorage
                          ELSE removeItem(localStorage, i)
       /\ origin' = IF removeItemThrows THEN origin ELSE [origin EXCEPT ![i] = "reset"]
       /\ liveAtWrite' = IF removeItemThrows THEN liveAtWrite
                         ELSE [liveAtWrite EXCEPT ![i] = Null]
       /\ afterReset' = [afterReset EXCEPT ![i] = ~removeItemThrows]
       /\ resetInSync' =
            IF i \in AutoSave /\ ~removeItemThrows
            THEN [resetInSync EXCEPT ![i] =
                    (FindShortcut(i).shortcutKeys = lastSavedKeys[i])]
            ELSE resetInSync
       /\ lastOp' = Op("reset", i, FaultSet(removeItemThrows, "removeItem", FALSE, ""),
                       FALSE, FALSE, localStorage[StorageKeys[i]], FALSE)
  /\ registry' = CreateShortcut(deleteShortcut(registry, i), i, HARDCODED_DEFAULT(i), FALSE)
  /\ UNCHANGED <<convVars, pc, lastSavedKeys, timerStarted, shortcutKeysToUse,
                 deleteCalled, startupCalls, readFailed, changed, unsaved>>

resetDemoShortcut(i) ==
  /\ pc = 5
  /\ \E removeItemThrows \in BOOLEAN :
       /\ nEvents + 1 + Count(removeItemThrows) <= MaxEvents
       /\ nEvents' = nEvents + 1 + Count(removeItemThrows)
       /\ localStorage' = IF removeItemThrows THEN localStorage
                          ELSE removeItem(localStorage, i)
       /\ origin' = IF removeItemThrows THEN origin ELSE [origin EXCEPT ![i] = "reset"]
       /\ liveAtWrite' = IF removeItemThrows THEN liveAtWrite
                         ELSE [liveAtWrite EXCEPT ![i] = Null]
       /\ afterReset' = [afterReset EXCEPT ![i] = ~removeItemThrows]
       /\ resetInSync' =
            IF i \in AutoSave /\ ~removeItemThrows
            THEN [resetInSync EXCEPT ![i] =
                    (FindShortcut(i).shortcutKeys = lastSavedKeys[i])]
            ELSE resetInSync
       /\ lastOp' = Op("reset", i, FaultSet(removeItemThrows, "removeItem", FALSE, ""),
                       FALSE, FALSE, localStorage[StorageKeys[i]],
                       Escapes("reset", FaultSet(removeItemThrows, "removeItem", FALSE, "")))
  /\ UNCHANGED <<convVars, pc, registry, lastSavedKeys, timerStarted, shortcutKeysToUse,
                 deleteCalled, startupCalls, readFailed, changed, unsaved>>

resetDemoShortcut1 == resetDemoShortcut(1)
resetDemoShortcut2 == resetDemoShortcut(2)
resetDemoShortcut3 == resetDemoShortcut(3)
resetDemoShortcut4 == resetDemoShortcut(4)

\* a variant that writes only once something has been saved before
ShouldAutoSave_OnlyAfterFirstSave(shortcut, last) ==
  /\ shortcut.present
  /\ Truthy(shortcut.shortcutKeys)
  /\ last # Null
  /\ shortcut.shortcutKeys # last

\* a variant that does not compare the live chord with lastSavedKeys
ShouldAutoSave_NoCompare(shortcut, last) ==
  /\ shortcut.present
  /\ Truthy(shortcut.shortcutKeys)

\* the condition of the setInterval callback: a registration with truthy keys that
\* differ from lastSavedKeys
ShouldAutoSave(shortcut, last) ==
  /\ shortcut.present
  /\ Truthy(shortcut.shortcutKeys)
  /\ shortcut.shortcutKeys # last

\* a variant that assigns lastSavedKeys before it calls setItem
TickTracks_BeforeWrite(writes, setItemThrows) == writes

\* the assignment to lastSavedKeys follows setItem inside the try block: it is
\* reached when the write is made and does not throw
TickTracks(writes, setItemThrows) == writes /\ ~setItemThrows

autoSaveIntervalWith(i, getAllThrows, setItemThrows) ==
  /\ pc = 5
  /\ i \in AutoSave
  /\ timerStarted[i]
  /\ LET shortcut == FindShortcut(i)
           writes == ~getAllThrows /\ ShouldAutoSave(shortcut, lastSavedKeys[i])
           done == writes /\ ~setItemThrows
       IN
       /\ setItemThrows => writes
       /\ nEvents + Count(getAllThrows) + Count(setItemThrows) <= MaxEvents
       /\ nEvents' = nEvents + Count(getAllThrows) + Count(setItemThrows)
       /\ localStorage' = IF done THEN setItem(localStorage, i, shortcut) ELSE localStorage
       /\ lastSavedKeys' = IF TickTracks(writes, setItemThrows)
                           THEN TrackSaved(lastSavedKeys, i, shortcut)
                           ELSE lastSavedKeys
       /\ origin' = IF done THEN [origin EXCEPT ![i] = "tick"] ELSE origin
       /\ liveAtWrite' = IF done THEN [liveAtWrite EXCEPT ![i] = shortcut.shortcutKeys]
                         ELSE liveAtWrite
       /\ lastOp' = Op("tick", i,
                       FaultSet(getAllThrows, "getAllShortcuts", setItemThrows, "setItem"),
                       done, changed[i], localStorage[StorageKeys[i]],
                       Escapes("tick",
                               FaultSet(getAllThrows, "getAllShortcuts",
                                        setItemThrows, "setItem")))
  /\ changed' = [changed EXCEPT ![i] = FALSE]
  /\ UNCHANGED <<convVars, pc, registry, timerStarted, shortcutKeysToUse, deleteCalled,
                 startupCalls, readFailed, resetInSync, afterReset, unsaved>>

autoSaveInterval(i) ==
  \E getAllThrows, setItemThrows \in BOOLEAN :
    autoSaveIntervalWith(i, getAllThrows, setItemThrows)

autoSaveInterval2 == autoSaveInterval(2)
autoSaveInterval4 == autoSaveInterval(4)

\* the callback given to createShortcut, run by the host when the chord is pressed:
\* getAllShortcuts and console.log, outside any try block
shortcutCallback(i) ==
  /\ pc = 5
  /\ FindShortcut(i).present
  /\ Truthy(FindShortcut(i).shortcutKeys)
  /\ \E getAllThrows \in BOOLEAN :
       /\ nEvents + 1 + Count(getAllThrows) <= MaxEvents
       /\ nEvents' = nEvents + 1 + Count(getAllThrows)
       /\ lastOp' = Op("callback", i,
                       FaultSet(getAllThrows, "getAllShortcuts", FALSE, ""),
                       FALSE, FALSE, localStorage[StorageKeys[i]],
                       Escapes("callback",
                               FaultSet(getAllThrows, "getAllShortcuts", FALSE, "")))
  /\ UNCHANGED <<convVars, pc, localStorage, registry, lastSavedKeys, timerStarted,
                 shortcutKeysToUse, deleteCalled, startupCalls, readFailed, resetInSync,
                 origin, liveAtWrite, afterReset, changed, unsaved>>

shortcutCallback1 == shortcutCallback(1)
shortcutCallback2 == shortcutCallback(2)
shortcutCallback3 == shortcutCallback(3)
shortcutCallback4 == shortcutCallback(4)

----------------------------------------------------------------------------
(* The environment: the user edits a chord in the host UI; the page reloads *)

UserChangesKeys ==
  /\ pc = 5
  /\ nEvents < MaxEvents
  /\ \E i \in Inst, k \in UserChords \cup {Null} :
       /\ FindShortcut(i).present
       /\ FindShortcut(i).shortcutKeys # k
       /\ registry' = [registry EXCEPT ![ShortcutIds[i]].shortcutKeys = k]
       /\ changed' = [changed EXCEPT ![i] = TRUE]
       /\ afterReset' = [afterReset EXCEPT ![i] = FALSE]
       /\ resetInSync' = IF i \in AutoSave THEN [resetInSync EXCEPT ![i] = FALSE]
                         ELSE resetInSync
       /\ unsaved' = IF i \in ManualSave THEN [unsaved EXCEPT ![i] = TRUE] ELSE unsaved
       /\ lastOp' = Op("change", i, {}, FALSE, FALSE, localStorage[StorageKeys[i]], FALSE)
  /\ nEvents' = nEvents + 1
  /\ UNCHANGED <<convVars, pc, localStorage, lastSavedKeys, timerStarted,
                 shortcutKeysToUse, deleteCalled, startupCalls, readFailed, origin,
                 liveAtWrite>>

\* a reload discards the page: registry, closures and timers; localStorage stays
Reload ==
  /\ pc = 5
  /\ nEvents < MaxEvents
  /\ nEvents' = nEvents + 1
  /\ pc' = 0
  /\ registry' = [id \in IdSet |-> NoShortcut]
  /\ lastSavedKeys' = [i \in AutoSave |-> Null]
  /\ timerStarted' = [i \in Inst |-> FALSE]
  /\ shortcutKeysToUse' = [i \in Inst |-> NotCalled]
  /\ deleteCalled' = [i \in Inst |-> FALSE]
  /\ startupCalls' = [i \in Inst |-> <<>>]
  /\ readFailed' = {}
  /\ resetInSync' = [i \in AutoSave |-> FALSE]
  /\ changed' = [i \in Inst |-> FALSE]
  /\ lastOp' = Op("reload", 0, {}, FALSE, FALSE, NoItem, FALSE)
  /\ UNCHANGED <<convVars, localStorage, origin, liveAtWrite, afterReset, unsaved>>

Next ==
  \/ SDK_INITIALIZED
  \/ initializeShortcut1
  \/ initializeShortcut2
  \/ initializeShortcut3
  \/ initializeShortcut4
  \/ saveDemoShortcut1
  \/ saveDemoShortcut2
  \/ saveDemoShortcut3
  \/ saveDemoShortcut4
  \/ resetDemoShortcut1
  \/ resetDemoShortcut2
  \/ resetDemoShortcut3
  \/ resetDemoShortcut4
  \/ autoSaveInterval2
  \/ autoSaveInterval4
  \/ shortcutCallback1
  \/ shortcutCallback2
  \/ shortcutCallback3
  \/ shortcutCallback4
  \/ UserChangesKeys
  \/ Reload

Spec == Init /\ [][Next]_vars

\* the first page load of a profile: nothing is stored yet
InitLive == Init /\ \A i \in Inst : localStorage[StorageKeys[i]] = NoItem

\* an auto-save tick whose calls do not throw
quietTick(i) == autoSaveIntervalWith(i, FALSE, FALSE)

\* setInterval keeps firing the callback of instances 2 and 4, and a tick whose calls
\* do not throw keeps being possible
SpecLive ==
  InitLive /\ [][Next]_vars /\ WF_vars(quietTick(2)) /\ WF_vars(quietTick(4))

----------------------------------------------------------------------------
(* The converter on its own: one call on an argument drawn from a bounded set *)

\* decimal text of 0..999, written out digit by digit
DecimalText(n) ==
  IF n < 10 THEN <<Digits[n + 1]>>
  ELSE IF n < 100 THEN <<Digits[(n \div 10) + 1], Digits[(n % 10) + 1]>>
  ELSE <<Digits[(n \div 100) + 1], Digits[((n \div 10) % 10) + 1], Digits[(n % 10) + 1]>>

\* a token of the argument with what parseInt makes of it
NumTok(n) == [text |-> DecimalText(n), nan |-> FALSE, val |-> n]
Tok(text, nan, val) == [text |-> text, nan |-> nan, val |-> val]
OddToks ==
  { Tok(<<>>, TRUE, 0), Tok(<<"a">>, TRUE, 0), Tok(<<"x", "4">>, TRUE, 0),
    Tok(<<"-">>, TRUE, 0), Tok(<<" ">>, TRUE, 0),
    Tok(<<"4", "x">>, FALSE, 4), Tok(<<" ", "7">>, FALSE, 7),
    Tok(<<"-", "1">>, FALSE, 0 - 1), Tok(<<"+", "5">>, FALSE, 5),
    Tok(<<"1", ".", "5">>, FALSE, 1), Tok(<<"-", "3", "2">>, FALSE, 0 - 32) }
MaskToks == {NumTok(m) : m \in 0..MaxMask} \cup OddToks
KeyToks == {NumTok(k) : k \in 0..MaxKeyCode} \cup OddToks
FewToks == {NumTok(1), NumTok(2), NumTok(3), Tok(<<"a">>, TRUE, 0), Tok(<<>>, TRUE, 0)}

RECURSIVE Join(_)
Join(toks) ==
  IF Len(toks) = 0 THEN <<>>
  ELSE IF Len(toks) = 1 THEN toks[1].text
  ELSE toks[1].text \o <<",">> \o Join(Tail(toks))

NonStrings == {Null, Undefined, SomeNumber}

TokenLists ==
  {<<a>> : a \in MaskToks}
  \cup {<<a, b>> : a \in MaskToks, b \in KeyToks}
  \cup {<<a, b, c>> : a \in FewToks, b \in FewToks, c \in FewToks}
  \cup {<<a, b, c, a>> : a \in FewToks, b \in FewToks, c \in FewToks}

InitConv ==
  /\ convPc = "call"
  /\ converted = Null
  /\ \/ /\ numericFormat \in NonStrings
        /\ convShape = [kind |-> "nonstring", toks |-> <<>>]
     \/ \E toks \in TokenLists :
          /\ numericFormat = Str(Join(toks))
          /\ convShape = [kind |-> "tokens", toks |-> toks]
  /\ FreshPage
  /\ localStorage = [k \in KeySet |-> NoItem]
  /\ origin = [i \in Inst |-> "none"]
  /\ liveAtWrite = [i \in Inst |-> Null]
  /\ afterReset = [i \in Inst |-> FALSE]
  /\ unsaved = [i \in ManualSave |-> FALSE]
  /\ lastOp = Op("init", 0, {}, FALSE, FALSE, NoItem, FALSE)
  /\ nEvents = 0

ConvertCall ==
  /\ convPc = "call"
  /\ converted' = convertNumericShortcutToString(numericFormat)
  /\ convPc' = "done"
  /\ UNCHANGED <<numericFormat, convShape, lifeVars>>

NextConv == ConvertCall

SpecConv == InitConv /\ [][NextConv]_vars

----------------------------------------------------------------------------
(* Vocabulary of the properties *)

Live(i) == FindShortcut(i).shortcutKeys
StoredItem(i) == localStorage[StorageKeys[i]]
HasRecord(i) == StoredItem(i).kind = "record"

\* the chords of the model written out in both formats
Chord_A_2 == Str(<<"4", ",", "5", "0">>)
Chord_A_9 == Str(<<"4", ",", "5", "7">>)
KnownChords == {ChordC_q, ChordA_8, Chord_A_2, Chord_A_9}
ChordText(k) ==
  IF k = ChordC_q THEN Str(<<"C", "+", "q">>)
  ELSE IF k = ChordA_8 THEN Str(<<"A", "+", "8">>)
  ELSE IF k = Chord_A_2 THEN Str(<<"A", "+", "2">>)
  ELSE Str(<<"A", "+", "9">>)

StartupOf(i) == lastOp.op = "startup" /\ lastOp.inst = i
ReadOk == "getItem" \notin lastOp.faults
CreateOk == "createShortcut" \notin lastOp.faults

\* C1: save() then a reload whose startup reads the record save() wrote: the register
\* call gets the string form of the chord that was live at save time, and a
\* successful registration exists under the shortcut id
C1_SaveReloadRoundTrip ==
  \A i \in Inst :
    (StartupOf(i) /\ ReadOk /\ origin[i] = "save" /\ liveAtWrite[i] \in KnownChords)
      => /\ shortcutKeysToUse[i] = ChordText(liveAtWrite[i])
         /\ CreateOk => FindShortcut(i).present

C1_Witness ==
  \E i \in Inst :
    /\ StartupOf(i) /\ ReadOk /\ CreateOk
    /\ origin[i] = "save"
    /\ liveAtWrite[i] = ChordC_q
    /\ shortcutKeysToUse[i] = Str(<<"C", "+", "q">>)
    /\ FindShortcut(i).present

\* C2 as stated: at the end of the auto-save tick that follows a change of the live
\* chord, the stored record's shortcutKeys equals the live chord
C2_TickPersistsAnyChange ==
  \A i \in AutoSave :
    (lastOp.op = "tick" /\ lastOp.inst = i /\ lastOp.sawChange)
      => HasRecord(i) /\ StoredItem(i).shortcutKeys = Live(i)

\* C2 amended: a tick that follows a change to a non-null chord different from
\* lastSavedKeys, and whose registry query and storage write do not throw, leaves
\* the stored record's shortcutKeys and lastSavedKeys equal to the live chord
C2_TickPersistsNewChord ==
  [][\A i \in AutoSave :
       ( /\ lastOp'.op = "tick" /\ lastOp'.inst = i /\ lastOp'.faults = {}
         /\ changed[i]
         /\ Live(i).tag = "string" /\ Live(i).chars # <<>>
         /\ Live(i) # lastSavedKeys[i] )
       => /\ localStorage'[StorageKeys[i]].kind = "record"
          /\ localStorage'[StorageKeys[i]].shortcutKeys = Live(i)
          /\ lastSavedKeys'[i] = Live(i)]_vars

C2_Witness ==
  \E i \in AutoSave :
    /\ lastOp.op = "tick" /\ lastOp.inst = i /\ lastOp.sawChange /\ lastOp.wrote
    /\ Live(i) = ChordC_q
    /\ HasRecord(i) /\ StoredItem(i).shortcutKeys = ChordC_q

\* C3 as stated: a startup that follows a reset() (only auto-save ticks and the
\* reload in between) registers the hardcoded default, or no chord for 1 and 4
C3_ResetThenReloadGivesDefault ==
  \A i \in Inst :
    (StartupOf(i) /\ afterReset[i])
      => shortcutKeysToUse[i] =
           (IF i = 2 THEN Str(<<"A", "+", "2">>)
            ELSE IF i = 3 THEN Str(<<"A", "+", "9">>) ELSE Null)

\* C4: a startup that reads a record with a decodable numeric chord passes the
\* decoded chord to the register call, not the hardcoded default
C4_StoredChordIsRestored ==
  \A i \in Inst :
    (StartupOf(i) /\ ReadOk /\ HasRecord(i) /\ StoredItem(i).shortcutKeys \in KnownChords)
      => /\ shortcutKeysToUse[i] = ChordText(StoredItem(i).shortcutKeys)
         /\ CreateOk => FindShortcut(i).present

C4_Witness ==
  \E i \in {2, 3} :
    /\ StartupOf(i) /\ ReadOk /\ CreateOk
    /\ HasRecord(i) /\ StoredItem(i).shortcutKeys = ChordC_q
    /\ shortcutKeysToUse[i] = Str(<<"C", "+", "q">>)
    /\ FindShortcut(i).present

\* C5: a startup with nothing stored registers A+2 for shortcut 2, A+9 for
\* shortcut 3 and no chord for shortcuts 1 and 4
C5_NoRecordGivesDefault ==
  \A i \in Inst :
    (StartupOf(i) /\ StoredItem(i) = NoItem)
      => /\ shortcutKeysToUse[i] =
              (IF i = 2 THEN Str(<<"A", "+", "2">>)
               ELSE IF i = 3 THEN Str(<<"A", "+", "9">>) ELSE Null)
         /\ CreateOk => FindShortcut(i).present

C5_Witness ==
  /\ StartupOf(2) /\ CreateOk
  /\ StoredItem(2) = NoItem
  /\ shortcutKeysToUse[2] = Str(<<"A", "+", "2">>)
  /\ FindShortcut(2).present
  /\ shortcutKeysToUse[1] = Null

\* C10 as stated: no stored record has null shortcutKeys
C10_NoNullKeysStored ==
  \A i \in Inst : HasRecord(i) => StoredItem(i).shortcutKeys # Null

\* C10 amended: a stored record has null shortcutKeys only when saveDemoShortcut1,
\* 2 or 4 wrote it while the live chord was null; no auto-save tick and no
\* saveDemoShortcut3 call writes such a record
C10_NullKeysOnlyFromManualSave ==
  \A i \in Inst :
    (HasRecord(i) /\ StoredItem(i).shortcutKeys = Null)
      => origin[i] = "save" /\ i \in {1, 2, 4} /\ liveAtWrite[i] = Null

C10_Witness ==
  /\ lastOp.op = "save" /\ lastOp.inst = 1 /\ lastOp.wrote
  /\ Live(1) = Null
  /\ HasRecord(1) /\ StoredItem(1).shortcutKeys = Null

----------------------------------------------------------------------------
(* Properties of the converter, over SpecConv *)

Returned == convPc = "done"
\* the argument is a string of exactly two comma-separated tokens parseInt accepts
TwoIntegers ==
  /\ convShape.kind = "tokens"
  /\ Len(convShape.toks) = 2
  /\ ~convShape.toks[1].nan
  /\ ~convShape.toks[2].nan
MaskIn == convShape.toks[1].val
KeyIn == convShape.toks[2].val

\* the key part the claims describe: the digit for 48..57, the lowercase letter for
\* 65..90, the decimal text of the code otherwise
KeyText(k) ==
  IF k \in 48..57 THEN <<Digits[k - 47]>>
  ELSE IF k \in 65..90 THEN <<Lower[k - 64]>>
  ELSE IF k < 0 THEN <<"-">> \o DecimalText(0 - k)
  ELSE DecimalText(k)

WithKey(letters, k) ==
  IF letters = <<>> THEN Str(KeyText(k)) ELSE Str(letters \o <<"+">> \o KeyText(k))

\* the letters of masks 0..7 as the script's header comment lists them
ScriptLetters ==
  << <<>>, <<"S">>, <<"C">>, <<"S", "C">>, <<"A">>, <<"S", "A">>, <<"C", "A">>,
     <<"S", "C", "A">> >>
\* the letters of masks 0..7 as the guide's Modifier Bitmask Reference lists them
GuideLetters ==
  << <<>>, <<"C">>, <<"S">>, <<"C", "S">>, <<"A">>, <<"A", "C">>, <<"A", "S">>,
     <<"A", "C", "S">> >>

\* C6: every argument that is not a string of exactly two comma-separated
\* integer-parsable tokens is answered with null, and the call does not throw
C6_MalformedGivesNull ==
  (Returned /\ ~TwoIntegers) => converted = Null

C6_Witness ==
  /\ Returned
  /\ numericFormat = Str(<<"1", ",", "2", ",", "3">>)
  /\ ~TwoIntegers
  /\ converted = Null

\* C7: for masks 0..7 the letters are S for bit 0, C for bit 1, A for bit 2, in the
\* order S, C, A, then "+" and the key; the key alone when the mask is 0
C7_ScriptModifierMapping ==
  (Returned /\ TwoIntegers /\ MaskIn \in 0..7)
    => converted = WithKey(ScriptLetters[MaskIn + 1], KeyIn)

C7_Witness ==
  /\ Returned
  /\ numericFormat = Str(<<"5", ",", "7", "8">>)
  /\ converted = Str(<<"S", "A", "+", "n">>)

\* C8: for masks 0..7 the letters are C for value 1, S for value 2, A for value 4,
\* in the order A, C, S, so that "2,81" gives "S+q"
C8_GuideModifierMapping ==
  (Returned /\ TwoIntegers /\ MaskIn \in 0..7)
    => converted = WithKey(GuideLetters[MaskIn + 1], KeyIn)

\* the part of a chord string after its "+", the whole string when it has none
KeyPart(chars) ==
  IF IsIn(chars, "+") THEN SubSeq(chars, IndexIn(chars, "+") + 1, Len(chars)) ELSE chars

\* C9: for every valid argument the key part is the digit for 48..57, the lowercase
\* letter for 65..90 and the decimal text of the key code otherwise
C9_KeyMapping ==
  (Returned /\ TwoIntegers)
    => converted.tag = "string" /\ KeyPart(converted.chars) = KeyText(KeyIn)

C9_Witness ==
  /\ Returned
  /\ numericFormat = Str(<<"4", ",", "3", "2">>)
  /\ converted = Str(<<"A", "+", "3", "2">>)

----------------------------------------------------------------------------
(* save(), reset() and the tick as single operations *)

LastOpIs(op, i) == lastOp.op = op /\ lastOp.inst = i
NoFault == lastOp.faults = {}

\* the record that holds the live registration's id, name, description and chord
LiveRecord(i) ==
  [kind |-> "record", shortcutId |-> FindShortcut(i).shortcutId,
   name |-> FindShortcut(i).name, description |-> FindShortcut(i).description,
   shortcutKeys |-> Live(i)]

\* C11 as stated: after a save() of an instance that has a live registration (no
\* external call throwing), the value under its storage key is the record of the
\* live registration's id, name, description and chord
C11_SaveWritesLiveRecord ==
  \A i \in Inst :
    (LastOpIs("save", i) /\ NoFault /\ FindShortcut(i).present)
      => StoredItem(i) = LiveRecord(i)

\* C11 amended: the same, except that for shortcut 3 the live chord must be non-null
C11_SaveWritesLiveRecordUnlessSkipped ==
  \A i \in Inst :
    ( /\ LastOpIs("save", i) /\ NoFault /\ FindShortcut(i).present
      /\ (i = 3 => Truthy(Live(i))) )
      => /\ StoredItem(i) = LiveRecord(i)
         /\ StoredItem(i).shortcutId = ShortcutIds[i]
         /\ StoredItem(i).name = Names[i]
         /\ StoredItem(i).description = Descriptions[i]

C11_Witness ==
  \E i \in Inst :
    /\ LastOpIs("save", i) /\ NoFault /\ FindShortcut(i).present
    /\ lastOp.before.kind = "record"
    /\ lastOp.before.shortcutKeys = Undecodable
    /\ Live(i) = ChordA_8
    /\ StoredItem(i) = LiveRecord(i)

\* C12: a saveDemoShortcut3() call made while the live chord of shortcut 3 is null
\* leaves the whole storage unchanged, and a call that writes does so with a
\* non-null live chord, which the record then holds
C12_Save3SkipsNullChord ==
  [][(lastOp'.op = "save" /\ lastOp'.inst = 3)
       => /\ ~Truthy(Live(3)) => (localStorage' = localStorage /\ ~lastOp'.wrote)
          /\ localStorage' # localStorage => Truthy(Live(3))
          /\ lastOp'.wrote
               => /\ Truthy(Live(3))
                  /\ localStorage'[StorageKeys[3]].kind = "record"
                  /\ localStorage'[StorageKeys[3]].shortcutKeys = Live(3)]_vars

C12_Witness ==
  /\ LastOpIs("save", 3) /\ NoFault
  /\ FindShortcut(3).present /\ Live(3) = Null
  /\ ~lastOp.wrote
  /\ lastOp.before.kind = "record"
  /\ StoredItem(3) = lastOp.before

\* the variables of the program (the history variables left out)
programVars ==
  <<pc, localStorage, registry, lastSavedKeys, timerStarted, shortcutKeysToUse,
    deleteCalled>>

\* C13: a reset() whose removeItem does not throw leaves nothing under the instance's
\* storage key, whatever was there, and changes no other key; no exception leaves
\* reset(); a reset() of an absent key changes nothing, so a second call leaves the
\* state the first one left
C13_ResetRemovesAndIsIdempotent ==
  [][\A i \in Inst :
       (lastOp'.op = "reset" /\ lastOp'.inst = i)
         => /\ ~lastOp'.escaped
            /\ lastOp'.faults = {}
                 => localStorage' = [localStorage EXCEPT ![StorageKeys[i]] = NoItem]
            /\ localStorage[StorageKeys[i]] = NoItem => programVars' = programVars]_vars

C13_Witness ==
  \E i \in Inst :
    /\ LastOpIs("reset", i) /\ NoFault
    /\ lastOp.before = NoItem
    /\ StoredItem(i) = NoItem
    /\ origin[i] = "reset"
    /\ ~lastOp.escaped

\* C14: save(), reset() and the auto-save tick leave every live registration as it
\* was (presence, chord, name, description); a registration changes only by the
\* user's edit, by a reload and by the startup that follows it
C14_OnlyStartupRegisters ==
  [][/\ lastOp'.op \in {"save", "reset", "tick"} => registry' = registry
     /\ registry' # registry => lastOp'.op \in {"change", "reload", "startup"}]_vars

C14_Witness ==
  /\ LastOpIs("reset", 2) /\ NoFault
  /\ lastOp.before.kind = "record"
  /\ StoredItem(2) = NoItem
  /\ FindShortcut(2).present
  /\ Live(2) = ChordC_q
  /\ FindShortcut(2).name = Names[2]

\* the chord startup passes to createShortcut when nothing is stored
DefaultText(i) ==
  IF i = 2 THEN Str(<<"A", "+", "2">>)
  ELSE IF i = 3 THEN Str(<<"A", "+", "9">>) ELSE Null

\* the registration of a manual-save instance at the startup after an unsaved
\* change: the chord of the last save(), else the stored chord of the earlier
\* session, else the default
RegisteredAsBeforeChange(i) ==
  /\ (origin[i] = "save" /\ liveAtWrite[i] \in KnownChords)
       => shortcutKeysToUse[i] = ChordText(liveAtWrite[i])
  /\ (origin[i] = "save" /\ liveAtWrite[i] = Null)
       => (i = 1 /\ shortcutKeysToUse[i] = Null)
  /\ (origin[i] = "preset" /\ HasRecord(i) /\ StoredItem(i).shortcutKeys \in KnownChords)
       => shortcutKeysToUse[i] = ChordText(StoredItem(i).shortcutKeys)
  /\ origin[i] \in {"none", "reset"}
       => (StoredItem(i) = NoItem /\ shortcutKeysToUse[i] = DefaultText(i))

\* C15: for shortcuts 1 and 3 the value under the storage key changes only in the
\* instance's own save() or reset(), never by a change of the live chord or a tick;
\* and the startup after an unsaved change registers the shortcut as the storage left
\* by the last save(), reset() or earlier session says
C15_UnsavedChangeIsLost ==
  /\ [][\A i \in ManualSave :
          localStorage'[StorageKeys[i]] # localStorage[StorageKeys[i]]
            => (lastOp'.op \in {"save", "reset"} /\ lastOp'.inst = i)]_vars
  /\ [](\A i \in ManualSave :
          (StartupOf(i) /\ ReadOk /\ unsaved[i]) => RegisteredAsBeforeChange(i))

C15_Witness ==
  /\ StartupOf(3) /\ ReadOk /\ CreateOk
  /\ unsaved[3]
  /\ origin[3] = "preset"
  /\ HasRecord(3) /\ StoredItem(3).shortcutKeys = ChordC_q
  /\ shortcutKeysToUse[3] = Str(<<"C", "+", "q">>)
  /\ FindShortcut(3).present

\* C16: a startup that reads a record whose chord the converter rejects passes no
\* chord (null) to createShortcut, for shortcuts 2 and 3 as well, and the shortcut
\* is then registered without a chord
C16_UndecodableGivesNoChord ==
  \A i \in Inst :
    ( /\ StartupOf(i) /\ ReadOk /\ HasRecord(i)
      /\ Truthy(StoredItem(i).shortcutKeys)
      /\ convertNumericShortcutToString(StoredItem(i).shortcutKeys) = Null )
      => /\ shortcutKeysToUse[i] = Null
         /\ CreateOk => (FindShortcut(i).present /\ Live(i) = Null)

C16_Witness ==
  \E i \in {2, 3} :
    /\ StartupOf(i) /\ ReadOk /\ CreateOk
    /\ HasRecord(i) /\ StoredItem(i).shortcutKeys = Undecodable
    /\ shortcutKeysToUse[i] = Null
    /\ FindShortcut(i).present /\ Live(i) = Null

\* C17: a startup whose getItem throws, or that finds a value JSON.parse rejects,
\* makes no deleteShortcut call, passes the hardcoded default (or no chord) to
\* createShortcut, starts the timer of an auto-save instance with lastSavedKeys null
\* and goes on to the next instance, as a startup with nothing stored does
C17_ReadFailureIsAbsence ==
  \A i \in Inst :
    (StartupOf(i) /\ (~ReadOk \/ StoredItem(i) = Garbage))
      => /\ ~deleteCalled[i]
         /\ shortcutKeysToUse[i] = DefaultText(i)
         /\ CreateOk => (FindShortcut(i).present
                         /\ Live(i) = HostNumericFormat(DefaultText(i)))
         /\ i \in AutoSave => (lastSavedKeys[i] = Null /\ timerStarted[i])
         /\ pc = i + 1
         /\ ~lastOp.escaped

C17_Witness ==
  /\ StartupOf(3) /\ ~ReadOk /\ CreateOk
  /\ HasRecord(3) /\ StoredItem(3).shortcutKeys = ChordC_q
  /\ ~deleteCalled[3]
  /\ shortcutKeysToUse[3] = Str(<<"A", "+", "9">>)
  /\ FindShortcut(3).present
  /\ StoredItem(2) = Garbage
  /\ ~deleteCalled[2]
  /\ shortcutKeysToUse[2] = Str(<<"A", "+", "2">>)
  /\ lastSavedKeys[2] = Null /\ timerStarted[2]
  /\ pc = 4

----------------------------------------------------------------------------
(* Failures *)

InstanceOps == {"startup", "save", "reset", "tick"}

\* C18: an operation of one instance, failing or not, leaves the storage value and
\* the registration of every other instance as they were; every startup, whatever
\* throws in it, hands over to the next instance; and an instance whose own
\* createShortcut does not throw is registered, whatever failed before it
C18_FailuresAreIsolated ==
  /\ [][\A i \in Inst :
          (lastOp'.inst = i /\ lastOp'.op \in InstanceOps)
            => /\ \A j \in Inst \ {i} :
                    /\ localStorage'[StorageKeys[j]] = localStorage[StorageKeys[j]]
                    /\ registry'[ShortcutIds[j]] = registry[ShortcutIds[j]]
               /\ lastOp'.op = "startup" => pc' = i + 1]_vars
  /\ [](\A j \in Inst :
          /\ (StartupOf(j) /\ CreateOk) => FindShortcut(j).present
          /\ pc = 5 => shortcutKeysToUse[j] # NotCalled)

C18_Witness ==
  /\ StartupOf(4) /\ NoFault
  /\ pc = 5
  /\ shortcutKeysToUse[1] # NotCalled
  /\ ~FindShortcut(1).present
  /\ FindShortcut(2).present /\ FindShortcut(3).present /\ FindShortcut(4).present
  /\ StoredItem(2) = Garbage

ExternalCalls ==
  {"getItem", "deleteShortcut", "createShortcut", "getAllShortcuts", "setItem",
   "removeItem"}

\* C19: whichever external call throws in a startup, a save(), a reset() or a tick,
\* no exception leaves the operation and initializeShortcuts is never abandoned;
\* after a tick in which a call threw, the timer is still running and the next tick
\* can fire
C19_ExceptionsAreCaught ==
  /\ lastOp.faults \subseteq ExternalCalls
  /\ lastOp.op \in InstanceOps => ~lastOp.escaped
  /\ pc \in 0..5
  /\ \A i \in AutoSave :
       (LastOpIs("tick", i) /\ ~NoFault)
         => (timerStarted[i] /\ ENABLED autoSaveInterval(i))

C19_Witness ==
  \E i \in AutoSave :
    /\ LastOpIs("tick", i)
    /\ "setItem" \in lastOp.faults
    /\ ~lastOp.escaped
    /\ ~lastOp.wrote
    /\ timerStarted[i]
    /\ Live(i) = ChordC_q /\ lastSavedKeys[i] # ChordC_q

----------------------------------------------------------------------------
(* The auto-save tick *)

\* a live registration exists, its chord is not null and differs from lastSavedKeys
TickHasNews(i) ==
  /\ FindShortcut(i).present
  /\ Live(i) # Null
  /\ Live(i) # lastSavedKeys[i]

\* C20: a tick of shortcut 2 or 4 that writes does so with a live registration whose
\* non-null chord differs from lastSavedKeys, stores the record of that registration
\* and sets lastSavedKeys to the chord; with such a chord and no call throwing the
\* tick does write; a tick that does not write leaves storage and lastSavedKeys as
\* they were; and the tick that follows a tick in which nothing threw writes nothing
C20_TickWritesIffNews ==
  [][\A i \in AutoSave :
       (lastOp'.op = "tick" /\ lastOp'.inst = i)
         => /\ lastOp'.wrote
                 => /\ TickHasNews(i)
                    /\ localStorage' = [localStorage EXCEPT ![StorageKeys[i]] = LiveRecord(i)]
                    /\ lastSavedKeys' = [lastSavedKeys EXCEPT ![i] = Live(i)]
            /\ (TickHasNews(i) /\ lastOp'.faults = {}) => lastOp'.wrote
            /\ ~lastOp'.wrote
                 => (localStorage' = localStorage /\ lastSavedKeys' = lastSavedKeys)
            /\ (LastOpIs("tick", i) /\ NoFault)
                 => (~lastOp'.wrote /\ localStorage' = localStorage)]_vars

C20_Witness ==
  \E i \in AutoSave :
    /\ LastOpIs("tick", i) /\ NoFault
    /\ ~lastOp.wrote /\ ~lastOp.sawChange
    /\ origin[i] = "tick"
    /\ Live(i) = ChordC_q
    /\ lastSavedKeys[i] = ChordC_q
    /\ HasRecord(i) /\ StoredItem(i).shortcutKeys = ChordC_q
    /\ lastOp.before = StoredItem(i)

----------------------------------------------------------------------------
(* The order of the calls *)

Started(i) == startupCalls[i] # <<>>
Made(i, c) == IsIn(startupCalls[i], c)

\* C21 as stated: the startup of an instance calls deleteShortcut exactly when it has
\* loaded a record whose shortcutKeys is not null; the call comes before the
\* createShortcut call and none comes after it, so that the registration made is
\* still there
C21_DeleteIffStoredChordAndBeforeCreate ==
  \A i \in Inst :
    /\ StartupOf(i)
         => (Made(i, "deleteShortcut")
               <=> (ReadOk /\ HasRecord(i) /\ StoredItem(i).shortcutKeys # Null))
    /\ Started(i)
         => /\ Made(i, "deleteShortcut") = deleteCalled[i]
            /\ Made(i, "createShortcut")
            /\ startupCalls[i][Len(startupCalls[i])] = "createShortcut"
            /\ Made(i, "deleteShortcut")
                 => IndexIn(startupCalls[i], "deleteShortcut")
                      < IndexIn(startupCalls[i], "createShortcut")
    /\ (StartupOf(i) /\ CreateOk) => FindShortcut(i).present

\* C21 amended: the startup of an instance calls deleteShortcut exactly when it has
\* loaded a record whose shortcutKeys is neither null nor the empty string; the call
\* comes before the createShortcut call and none comes after it
C21_DeleteIffStoredChordTruthy ==
  \A i \in Inst :
    /\ StartupOf(i)
         => (Made(i, "deleteShortcut")
               <=> (ReadOk /\ HasRecord(i) /\ Truthy(StoredItem(i).shortcutKeys)))
    /\ Started(i)
         => /\ Made(i, "deleteShortcut") = deleteCalled[i]
            /\ Made(i, "createShortcut")
            /\ startupCalls[i][Len(startupCalls[i])] = "createShortcut"
            /\ Made(i, "deleteShortcut")
                 => IndexIn(startupCalls[i], "deleteShortcut")
                      < IndexIn(startupCalls[i], "createShortcut")
    /\ (StartupOf(i) /\ CreateOk) => FindShortcut(i).present

C21_Witness ==
  /\ StartupOf(2) /\ NoFault
  /\ startupCalls[2] = <<"getItem", "deleteShortcut", "createShortcut">>
  /\ FindShortcut(2).present
  /\ HasRecord(1) /\ StoredItem(1).shortcutKeys = Null
  /\ startupCalls[1] = <<"getItem", "createShortcut">>

\* the chord startup passes to createShortcut for the stored chord k
TextOfStored(k) == IF k \in KnownChords THEN ChordText(k) ELSE Null

\* C22: a startup whose deleteShortcut call throws goes on to call createShortcut,
\* with the chord the stored record gives, and the shortcut is registered with it
C22_DeleteFailureStillRegisters ==
  \A i \in Inst :
    (StartupOf(i) /\ "deleteShortcut" \in lastOp.faults)
      => /\ HasRecord(i)
         /\ Made(i, "createShortcut")
         /\ shortcutKeysToUse[i] = TextOfStored(StoredItem(i).shortcutKeys)
         /\ CreateOk
              => /\ FindShortcut(i).present
                 /\ Live(i) = (IF StoredItem(i).shortcutKeys \in KnownChords
                               THEN StoredItem(i).shortcutKeys ELSE Null)
         /\ pc = i + 1

C22_Witness ==
  \E i \in {1, 4} :
    /\ StartupOf(i) /\ lastOp.faults = {"deleteShortcut"}
    /\ StoredItem(i).shortcutKeys = ChordC_q
    /\ shortcutKeysToUse[i] = Str(<<"C", "+", "q">>)
    /\ FindShortcut(i).present /\ Live(i) = ChordC_q

\* how many times call c is in the call log of instance i
TimesMade(i, c) == Len(SelectSeq(startupCalls[i], LAMBDA x : x = c))

\* C23: in one page load the startup of an instance runs once and calls
\* createShortcut once; afterwards, until a reload, no operation makes a register or
\* deregister call, a registration that failed stays absent and one that succeeded
\* stays present
C23_RegisterOncePerPageLoad ==
  /\ [](\A i \in Inst : TimesMade(i, "createShortcut") <= 1)
  /\ [][\A i \in Inst :
          /\ (lastOp'.op = "startup" /\ lastOp'.inst = i) => ~Started(i)
          /\ (Started(i) /\ lastOp'.op # "reload")
               => /\ startupCalls'[i] = startupCalls[i]
                  /\ registry'[ShortcutIds[i]].present = registry[ShortcutIds[i]].present
          /\ lastOp'.op \in {"save", "reset", "tick", "callback"}
               => registry' = registry]_vars

C23_Witness ==
  /\ LastOpIs("tick", 2) /\ NoFault
  /\ TimesMade(2, "createShortcut") = 1
  /\ ~FindShortcut(2).present
  /\ FindShortcut(4).present

\* C24: a save() or a tick of an instance that has no live registration changes
\* neither the storage nor lastSavedKeys
C24_NoRegistrationNoWrite ==
  [][\A i \in Inst :
       ( /\ lastOp'.op \in {"save", "tick"} /\ lastOp'.inst = i
         /\ ~FindShortcut(i).present )
       => /\ localStorage' = localStorage
          /\ lastSavedKeys' = lastSavedKeys
          /\ ~lastOp'.wrote]_vars

C24_Witness ==
  \E i \in AutoSave :
    /\ lastOp.op \in {"save", "tick"} /\ lastOp.inst = i /\ NoFault
    /\ Started(i) /\ ~FindShortcut(i).present
    /\ ~lastOp.wrote
    /\ HasRecord(i) /\ StoredItem(i) = lastOp.before
    /\ lastSavedKeys[i] = ChordC_q

\* C25: the four storage keys are distinct, and a save(), reset() or tick of instance
\* i, whatever ran before it, leaves the storage value, the lastSavedKeys and the
\* registration of every other instance as they were
C25_OperationsTouchOwnInstanceOnly ==
  [][/\ \A i \in Inst : \A j \in Inst \ {i} : StorageKeys[i] # StorageKeys[j]
     /\ \A i \in Inst :
          (lastOp'.op \in {"save", "reset", "tick"} /\ lastOp'.inst = i)
            => \A j \in Inst \ {i} :
                 /\ localStorage'[StorageKeys[j]] = localStorage[StorageKeys[j]]
                 /\ j \in AutoSave => lastSavedKeys'[j] = lastSavedKeys[j]
                 /\ registry'[ShortcutIds[j]] = registry[ShortcutIds[j]]]_vars

C25_Witness ==
  /\ LastOpIs("tick", 4) /\ lastOp.wrote
  /\ StoredItem(4).shortcutKeys = ChordC_q /\ lastSavedKeys[4] = ChordC_q
  /\ HasRecord(2) /\ StoredItem(2).shortcutKeys = Chord_A_2
  /\ lastSavedKeys[2] = Chord_A_2
  /\ origin[2] = "tick"
  /\ Live(2) = Chord_A_2

\* C26: the startup steps leave the whole storage as it is, whatever is stored; the
\* value under a storage key changes only in a save(), a tick or a reset() of its
\* instance, so an unparseable or undecodable value outlives the startup
C26_StartupOnlyReadsStorage ==
  [][/\ lastOp'.op \in {"sdk", "startup"} => localStorage' = localStorage
     /\ \A i \in Inst :
          localStorage'[StorageKeys[i]] # localStorage[StorageKeys[i]]
            => (lastOp'.inst = i /\ lastOp'.op \in {"save", "tick", "reset"})]_vars

C26_Witness ==
  /\ pc = 5
  /\ lastOp.op = "tick"
  /\ Started(1) /\ StoredItem(1) = Garbage
  /\ Started(3) /\ HasRecord(3) /\ StoredItem(3).shortcutKeys = Undecodable
  /\ startupCalls[1] = <<"getItem", "createShortcut">>

\* C27: before SDK_INITIALIZED has resolved no instance has made any call, nothing is
\* registered and no timer runs; afterwards the instances that have run their startup
\* are exactly those below the next one in the order 1, 2, 3, 4, each with one
\* getItem and one createShortcut call
C27_StartupAfterSdkInOrder ==
  /\ pc = 0
       => \A i \in Inst :
            /\ ~Started(i)
            /\ ~FindShortcut(i).present
            /\ shortcutKeysToUse[i] = NotCalled
            /\ ~timerStarted[i]
  /\ pc \in 0..5
  /\ \A i \in Inst :
       /\ Started(i) <=> i < pc
       /\ Started(i)
            => /\ startupCalls[i][1] = "getItem"
               /\ TimesMade(i, "getItem") = 1
               /\ TimesMade(i, "createShortcut") = 1

C27_Witness ==
  /\ pc = 3
  /\ StartupOf(2)
  /\ Started(1) /\ Started(2) /\ ~Started(3) /\ ~Started(4)
  /\ FindShortcut(1).present /\ FindShortcut(2).present
  /\ ~FindShortcut(3).present
  /\ HasRecord(3)

----------------------------------------------------------------------------
(* The timer and lastSavedKeys *)

\* C28: a timer runs for an instance exactly when the instance is shortcut 2 or 4
\* and has run its startup, whether or not its createShortcut call succeeded; once
\* all startups are done a tick of shortcut 2 and of shortcut 4 can fire in every
\* state, whatever was saved, reset or thrown before, and no tick of 1 or 3 can
C28_TimerFor2And4NeverCancelled ==
  /\ \A i \in Inst : timerStarted[i] <=> (Started(i) /\ i \in {2, 4})
  /\ pc = 5
       => /\ ENABLED autoSaveInterval(2)
          /\ ENABLED autoSaveInterval(4)
          /\ ~ENABLED autoSaveInterval(1)
          /\ ~ENABLED autoSaveInterval(3)

C28_Witness ==
  /\ pc = 5
  /\ LastOpIs("tick", 2)
  /\ ~FindShortcut(2).present
  /\ timerStarted[2] /\ timerStarted[4]
  /\ ~timerStarted[1] /\ ~timerStarted[3]

C30_ResetInSyncStaysAbsent ==
  \A i \in AutoSave :
    resetInSync[i]
      => /\ StoredItem(i) = NoItem
         /\ Live(i) = lastSavedKeys[i]
         /\ LastOpIs("tick", i) => ~lastOp.wrote

C30_Witness ==
  /\ LastOpIs("tick", 2) /\ NoFault
  /\ resetInSync[2]
  /\ Live(2) = Chord_A_2 /\ lastSavedKeys[2] = Chord_A_2
  /\ StoredItem(2) = NoItem /\ lastOp.before = NoItem
  /\ origin[2] = "reset"

\* the stored record holds no chord: shortcutKeys is null or the empty string
HoldsNoChord(i) == HasRecord(i) /\ StoredItem(i).shortcutKeys \in {Null, EmptyChord}

\* C31: a startup that loads a record whose shortcutKeys is null or empty does what
\* a startup with nothing stored does: its calls are getItem and createShortcut with
\* no deleteShortcut, shortcuts 2 and 3 pass their hardcoded default and shortcuts 1
\* and 4 no chord, lastSavedKeys of shortcuts 2 and 4 is null, and the record stays
C31_EmptyRecordIsAbsence ==
  \A i \in Inst :
    (StartupOf(i) /\ ReadOk /\ HoldsNoChord(i))
      => /\ ~deleteCalled[i]
         /\ startupCalls[i] = <<"getItem", "createShortcut">>
         /\ shortcutKeysToUse[i] = DefaultText(i)
         /\ CreateOk => (FindShortcut(i).present
                         /\ Live(i) = HostNumericFormat(DefaultText(i)))
         /\ i \in AutoSave => lastSavedKeys[i] = Null
         /\ lastOp.before = StoredItem(i)

C31_Witness ==
  /\ StartupOf(2) /\ NoFault
  /\ HasRecord(2) /\ StoredItem(2).shortcutKeys = EmptyChord
  /\ startupCalls[2] = <<"getItem", "createShortcut">>
  /\ shortcutKeysToUse[2] = Str(<<"A", "+", "2">>)
  /\ FindShortcut(2).present
  /\ lastSavedKeys[2] = Null
  /\ HasRecord(1) /\ StoredItem(1).shortcutKeys = Null
  /\ startupCalls[1] = <<"getItem", "createShortcut">>
  /\ shortcutKeysToUse[1] = Null

\* C32: shortcut 2 was started with nothing stored and registered with its default,
\* and nothing has been written under its key since: a tick whose calls do not throw
\* writes a record holding the live encoding of the default, "4,50", and sets
\* lastSavedKeys to it, the user having changed nothing
C32_FirstTickWritesDefault ==
  [][( /\ origin[2] = "none" /\ StoredItem(2) = NoItem
       /\ shortcutKeysToUse[2] = Str(<<"A", "+", "2">>)
       /\ FindShortcut(2).present /\ Live(2) = Chord_A_2
       /\ lastOp'.op = "tick" /\ lastOp'.inst = 2 /\ lastOp'.faults = {} )
      => /\ lastSavedKeys[2] = Null
         /\ lastOp'.wrote
         /\ localStorage'[StorageKeys[2]] =
              [kind |-> "record", shortcutId |-> "WMEShortcutDemo_Action2",
               name |-> "Demo Action 2",
               description |-> "HARDCODED DEFAULT (A+2) + AUTO-SAVE",
               shortcutKeys |-> Chord_A_2]
         /\ lastSavedKeys'[2] = Chord_A_2]_vars

C32_Witness ==
  /\ LastOpIs("tick", 2) /\ NoFault
  /\ nEvents = 0
  /\ lastOp.wrote /\ ~lastOp.sawChange /\ lastOp.before = NoItem
  /\ shortcutKeysToUse[2] = Str(<<"A", "+", "2">>)
  /\ HasRecord(2) /\ StoredItem(2).shortcutKeys = Chord_A_2
  /\ lastSavedKeys[2] = Chord_A_2
  /\ origin[2] = "tick"

\* the numeric chords "mask,keyCode" with mask in 0..7 and the key code of a digit
\* or a letter
RestorableMasks == 0..7
RestorableKeyCodes == (48..57) \cup (65..90)
NumericChord(m, k) == Str(String(m) \o <<",">> \o String(k))
RestorableChords ==
  {NumericChord(m, k) : m \in RestorableMasks, k \in RestorableKeyCodes}
\* the numeric form of the string converted from K is K again
RestorableChordsRoundTrip ==
  \A K \in RestorableChords : HostNumericFormat(convertNumericShortcutToString(K)) = K
\* the live chord of the instance is the one lastSavedKeys holds
InSync(i) == FindShortcut(i).present /\ Live(i) = lastSavedKeys[i]

\* C33: for every chord K of that range the numeric form of the string converted from
\* K is K again; for shortcuts 2 and 4 a startup that loads a record holding such a K
\* and registers leaves the live chord and lastSavedKeys both equal to K; and from a
\* state where the two are equal no tick writes or changes either of them, and
\* neither does save(), reset() or a press, until the user changes the chord or the
\* page reloads
C33_RestoredChordIsNotRewritten ==
  /\ []RestorableChordsRoundTrip
  /\ [](\A i \in AutoSave :
          ( /\ StartupOf(i) /\ ReadOk /\ CreateOk
            /\ HasRecord(i) /\ StoredItem(i).shortcutKeys \in RestorableChords )
            => /\ InSync(i)
               /\ Live(i) = StoredItem(i).shortcutKeys
               /\ ~ShouldAutoSave(FindShortcut(i), lastSavedKeys[i]))
  /\ [][\A i \in AutoSave :
          (InSync(i) /\ lastOp'.op \notin {"change", "reload"})
            => /\ InSync(i)'
               /\ (lastOp'.op = "tick" /\ lastOp'.inst = i)
                    => (~lastOp'.wrote /\ localStorage' = localStorage)]_vars

C33_Witness ==
  /\ LastOpIs("tick", 4) /\ NoFault /\ ~lastOp.wrote
  /\ 4 \notin readFailed
  /\ startupCalls[4] = <<"getItem", "deleteShortcut", "createShortcut">>
  /\ shortcutKeysToUse[4] = Str(<<"C", "+", "q">>)
  /\ Live(4) = ChordC_q /\ lastSavedKeys[4] = ChordC_q
  /\ ChordC_q \in RestorableChords
  /\ HasRecord(4) /\ StoredItem(4).shortcutKeys = ChordC_q
  /\ origin[4] = "tick"

\* the record under the key and lastSavedKeys both hold the live chord
Persisted(i) ==
  /\ HasRecord(i) /\ StoredItem(i).shortcutKeys = Live(i)
  /\ lastSavedKeys[i] = Live(i)

\* C34: a tick of shortcut 2 or 4 whose setItem call throws leaves lastSavedKeys and
\* the storage as they were, so the condition of the write still holds after it; and
\* with ticks that do not throw firing fairly, after such a tick the live chord is
\* eventually stored and tracked, unless the user changes it or the page reloads
C34_FailedWriteIsRetried ==
  /\ [][\A i \in AutoSave :
          (lastOp'.op = "tick" /\ lastOp'.inst = i /\ "setItem" \in lastOp'.faults)
            => /\ lastSavedKeys' = lastSavedKeys
               /\ localStorage' = localStorage
               /\ ShouldAutoSave(FindShortcut(i), lastSavedKeys[i])']_vars
  /\ \A i \in AutoSave :
       (LastOpIs("tick", i) /\ "setItem" \in lastOp.faults)
         ~> (Persisted(i) \/ changed[i] \/ pc # 5)

C34_Witness ==
  /\ LastOpIs("tick", 4) /\ lastOp.faults = {"setItem"} /\ ~lastOp.wrote
  /\ Live(4) = ChordC_q /\ lastSavedKeys[4] = Null
  /\ StoredItem(4) = NoItem
  /\ ShouldAutoSave(FindShortcut(4), lastSavedKeys[4])
  /\ ENABLED quietTick(4)

\* the argument is "mask,keyCode" written in decimal with the mask in 0..7 and the
\* key code in 0..255
WellFormedChord ==
  /\ TwoIntegers
  /\ MaskIn \in 0..7 /\ convShape.toks[1] = NumTok(MaskIn)
  /\ KeyIn \in 0..255 /\ convShape.toks[2] = NumTok(KeyIn)

\* C35: no other chord with a mask in 0..7 and a key code in 0..255 converts to the
\* string a well-formed chord converts to
C35_ConverterIsInjective ==
  (Returned /\ WellFormedChord)
    => \A m \in 0..7, k \in 0..255 :
         (m # MaskIn \/ k # KeyIn)
           => convertNumericShortcutToString(NumericChord(m, k)) # converted

====
